---- MODULE Spec2Model ----
(***************************************************************************)
(* Crypto Trend API (services/api/app/main.py): the signal heuristic, the  *)
(* walk-forward backtest and the portfolio simulation, as state machines,  *)
(* and around them the batch endpoints, the alert poller, the outlook      *)
(* label and the watchlist store.                                          *)
(*                                                                         *)
(* Floats are fixed-point integers with denominator Scale (1.0 = Scale).   *)
(* Python indices are 0-based; a Python index k of a list s is s[k + 1].   *)
(***************************************************************************)
EXTENDS Integers, Sequences, FiniteSets, TLC

VARIABLES
    \* the request and what the exchange will answer for its pair
    op, symbol, risk, lookback, initial_capital, market,
    \* the handler's position and locals
    pc, closes, times, i, p_up, correct, total, equity, buy_hold,
    peak, max_dd, curve, wins, trades,
    \* the response, or the HTTPException raised
    result,
    \* history: the trades made so far and what the last loop iteration did
    tradeLog, lastStep,
    \* the service around a handler: the endpoint called, the exchange's
    \* answer per pair, the batch request, the state files, the position of
    \* the batch loop, the symbols it has left, its output so far, and
    \* (history) the pairs whose evaluation raised
    endpoint, exchange, symbols, max_symbols, watchlist_file, alerts_file,
    bpc, queue, out, raised,
    \* the watchlist requests in flight, the cached coin universe and what
    \* CoinGecko answers, (history) the alert state before the last poll and
    \* the labels last computed, and the labels given to one probability
    requests, universe_file, coingecko, pollLog, outlooks

\* the variables of a single handler call
call == <<op, symbol, risk, lookback, initial_capital, market,
          pc, closes, times, i, p_up, correct, total, equity, buy_hold,
          peak, max_dd, curve, wins, trades, result, tradeLog, lastStep>>

\* the variables of the service around it
svc == <<endpoint, exchange, symbols, max_symbols, watchlist_file, alerts_file,
         bpc, queue, out, raised>>

\* the variables of the watchlist store, of the alert history and of the
\* outlook label
aux == <<requests, universe_file, coingecko, pollLog, outlooks>>

vars == <<call, svc, aux>>

-----------------------------------------------------------------------------
(* Bounds of the model. *)

\* fixed-point denominator of every float
Scale == 10000
\* the modelled price series: flat for WarmLen bars at BasePrice, then three
\* blocks (the first two of BlockLen bars) moving by a fixed StepSize per bar
BasePrice == 10000
StepSize == 40
WarmLen == 50
BlockLen == 20
\* the exchange answers with MinLookback - 1 or MinLookback + ExtraBars bars
ExtraBars == 2

-----------------------------------------------------------------------------
(* Program constants. *)

MinLookback == 120
MinTrendBars == 60
StartIndex == 60
SimStartIndex == 60
ScanStop == 25
MaxHoldBars == 24
ShortLag == 12
LongLag == 48
MomentumCoef == 24
VolatilityCoef == 8
DefaultCapital == 10000
MinCapital == 100

RiskProfile == {"conservative", "moderate", "aggressive"}

-----------------------------------------------------------------------------
(* Fixed-point helpers. *)

Pct(n) == (n * Scale) \div 100
Mille(n) == (n * Scale) \div 1000
Mul(a, b) == (a * b) \div Scale
Div(a, b) == (a * Scale) \div b
Max(a, b) == IF a >= b THEN a ELSE b
Min(a, b) == IF a <= b THEN a ELSE b

RECURSIVE Pow10(_)
Pow10(n) == IF n = 0 THEN 1 ELSE 10 * Pow10(n - 1)

\* round(x, nd): to the nearest multiple of 10^-nd the representation holds
Round(x, nd) ==
    LET q == Scale \div Pow10(nd)
    IN  IF q <= 1 THEN x ELSE ((x + (q \div 2)) \div q) * q

\* math.sqrt on a value held with denominator Scale * Scale: the result has
\* denominator Scale
RECURSIVE SqrtIn(_, _, _)
SqrtIn(v, lo, hi) ==
    IF lo >= hi THEN lo
    ELSE LET mid == (lo + hi + 1) \div 2
         IN  IF mid * mid <= v THEN SqrtIn(v, mid, hi) ELSE SqrtIn(v, lo, mid - 1)
Sqrt(v) == SqrtIn(v, 0, Min(v, 46340))

\* Python list views
At(s, k) == s[k + 1]
FromEnd(s, n) == s[Len(s) - n + 1]
Prefix(s, n) == SubSeq(s, 1, Min(n, Len(s)))
Suffix(s, n) == SubSeq(s, Max(Len(s) - n, 0) + 1, Len(s))

-----------------------------------------------------------------------------
(* The price source. *)

Moves == {-1, 0, 1}
Patterns == [a : Moves, b : Moves, c : Moves]

\* close of bar k (0-based) of the series of pattern pat
Close(pat, k) ==
    LET n  == Max(k - WarmLen + 1, 0)
        na == Min(n, BlockLen)
        nb == Min(Max(n - BlockLen, 0), BlockLen)
        nc == Max(n - 2 * BlockLen, 0)
    IN  BasePrice + StepSize * (pat.a * na + pat.b * nb + pat.c * nc)

Kline(pat, k) == [open_time |-> k, close |-> Close(pat, k)]

Flat == [a |-> 0, b |-> 0, c |-> 0]
Down == [a |-> -1, b |-> -1, c |-> -1]

\* what the exchange may answer: a series just too short for the lookback
\* or longer than it, one just too short for a live signal, or an error
Markets ==
    [status : {"ok"}, pattern : Patterns,
     bars : {MinLookback - 1, MinLookback + ExtraBars}]
    \cup [status : {"ok"}, pattern : {Flat}, bars : {MinTrendBars - 1}]
    \cup [status : {"error"}, pattern : {Flat}, bars : {0}]

\* _fetch_klines: the rows of the exchange, oldest first, or HTTPException(502)
FetchKlines(m) ==
    IF m.status = "ok"
    THEN [status |-> "ok", rows |-> [k \in 1..m.bars |-> Kline(m.pattern, k - 1)]]
    ELSE [status |-> "HTTPException", rows |-> <<>>]

ClosesOf(rows) == [k \in 1..Len(rows) |-> rows[k].close]
TimesOf(rows) == [k \in 1..Len(rows) |-> rows[k].open_time]

-----------------------------------------------------------------------------
(* FeatureExtractor and SignalModel. *)

momentum_score(cs) ==
    LET r12 == Div(FromEnd(cs, 1), FromEnd(cs, ShortLag)) - Scale
        r48 == Div(FromEnd(cs, 1), FromEnd(cs, LongLag)) - Scale
    IN  Mul(Pct(65), r12) + Mul(Pct(35), r48)

Returns(cs) == [k \in 1..(Len(cs) - 1) |-> Div(cs[k + 1], cs[k]) - Scale]

\* sum(s[lo..hi]), by halves
RECURSIVE SumRange(_, _, _)
SumRange(s, lo, hi) ==
    IF lo > hi THEN 0
    ELSE IF lo = hi THEN s[lo]
    ELSE LET mid == (lo + hi) \div 2
         IN  SumRange(s, lo, mid) + SumRange(s, mid + 1, hi)

SumSeq(s, n) == SumRange(s, 1, n)

volatility(cs) ==
    LET returns == Returns(cs)
        n == Len(returns)
    IN  IF n = 0 THEN 0
        ELSE LET mean == SumSeq(returns, n) \div n
                 sq == [k \in 1..n |-> (returns[k] - mean) * (returns[k] - mean)]
                 var == SumSeq(sq, n) \div n
             IN  Sqrt(var)

\* logit(k / 100) for k = 1..99, in units of 1/10000, rounded up: the
\* arguments at which 1 / (1 + exp(-x)) reaches k / 100
LogitTable ==
    << -45951, -38918, -34760, -31780, -29444, -27515, -25866, -24423, -23136,
       -21972, -20907, -19924, -19009, -18152, -17346, -16582, -15856, -15163,
       -14500, -13862, -13249, -12656, -12083, -11526, -10986, -10459, -9946,
       -9444, -8953, -8472, -8001, -7537, -7081, -6632, -6190, -5753,
       -5322, -4895, -4473, -4054, -3639, -3227, -2818, -2411, -2006,
       -1603, -1201, -800, -400, 0, 401, 801, 1202, 1604,
       2007, 2412, 2819, 3228, 3640, 4055, 4474, 4896, 5323,
       5754, 6191, 6633, 7082, 7538, 8002, 8473, 8954, 9445,
       9947, 10460, 10987, 11527, 12084, 12657, 13250, 13863, 14501,
       15164, 15857, 16583, 17347, 18153, 19010, 19925, 20908, 21973,
       23137, 24424, 25867, 27516, 29445, 31781, 34761, 38919, 45952 >>

\* 1.0 / (1.0 + math.exp(-x)), to the hundredth below
Logistic(x) ==
    Pct(Cardinality({k \in 1..Len(LogitTable) :
                        x * 10000 >= LogitTable[k] * Scale}))

up_probability(momentum, vol) ==
    LET x == (momentum * MomentumCoef) - (vol * VolatilityCoef)
        p == Logistic(x)
    IN  Max(Pct(5), Min(Pct(95), p))

volatility_regime(vol) ==
    IF vol < Mille(8) THEN "low"
    ELSE IF vol < Pct(2) THEN "medium"
    ELSE "high"

entry_threshold(r) ==
    IF r = "conservative" THEN Pct(62)
    ELSE IF r = "aggressive" THEN Pct(52)
    ELSE Pct(55)

\* position_size, stop_loss, take_profit
risk_params(r) ==
    IF r = "conservative"
    THEN [pos_size |-> Pct(15), stop_loss |-> Mille(25), take_profit |-> Pct(5)]
    ELSE IF r = "aggressive"
    THEN [pos_size |-> Pct(35), stop_loss |-> Pct(5), take_profit |-> Pct(10)]
    ELSE [pos_size |-> Pct(25), stop_loss |-> Mille(35), take_profit |-> Pct(7)]

-----------------------------------------------------------------------------
(* Symbols: a base ticker, upper or lower case, with or without the USDT  *)
(* suffix.                                                                 *)

Symbol(base, upper, usdt) == [base |-> base, upper |-> upper, usdt |-> usdt]

\* a pair that keeps the case of the symbol
ToPairKeepCase(s) == [base |-> s.base, upper |-> s.upper, usdt |-> TRUE]

\* symbol.upper(), with USDT appended unless it ends in USDT
to_pair(s) == [base |-> s.base, upper |-> TRUE, usdt |-> TRUE]

Bases == {"BTC", "ETH", "SOL"}

\* a state file that does not exist
Missing == [exists |-> FALSE]

\* a Python dict, and d[k] = v
EmptyDict == [x \in {} |-> "none"]

DictPut(d, k, v) == [x \in DOMAIN d \cup {k} |-> IF x = k THEN v ELSE d[x]]

\* d.update(e)
DictUpdate(d, e) ==
    [x \in DOMAIN d \cup DOMAIN e |-> IF x \in DOMAIN e THEN e[x] ELSE d[x]]

\* no request in flight, no poll made, no probability labelled
NoRequests == <<>>
NoPoll == [polls |-> 0, prev |-> EmptyDict, known |-> EmptyDict,
           latest |-> EmptyDict, failed |-> {}, cut |-> {},
           failed_before |-> {}, cut_before |-> {}]
NoOutlooks == [p |-> 0, explain |-> "none", alert |-> "none"]
Unreachable == [status |-> "error", coins |-> <<>>]

AuxIdle ==
    /\ requests = NoRequests
    /\ universe_file = Missing
    /\ coingecko = Unreachable
    /\ pollLog = NoPoll
    /\ outlooks = NoOutlooks

HTTPException(code, detail) ==
    [status |-> "HTTPException", code |-> code, detail |-> detail]

NoStep == [kind |-> "none", i |-> 0, entries |-> 0]

\* how many loop iterations so far met the entry threshold
Entries == lastStep.entries

-----------------------------------------------------------------------------
(* trend: GET /v1/trends/{symbol}                                          *)

\* the f-string of _signal_explanation, by the values it formats
signal_explanation(momentum, vol, regime, r) ==
    [momentum |-> Round(momentum, 3), volatility |-> Round(vol, 4),
     regime |-> regime, risk |-> r]

\* a signal whose probability is shifted by the profile
TrendSignalByRisk(cs, r) ==
    LET m == momentum_score(cs)
        v == volatility(cs)
    IN  [momentum |-> m, vol |-> v,
         up_probability |-> up_probability(m, v)
                              + (Pct(55) - entry_threshold(r)),
         regime |-> volatility_regime(v)]

\* lines 217-220: the signal of the fetched closes; the profile r is in
\* scope
TrendSignal(cs, r) ==
    LET m == momentum_score(cs)
        v == volatility(cs)
    IN  [momentum |-> m, vol |-> v,
         up_probability |-> up_probability(m, v),
         regime |-> volatility_regime(v)]

\* a guard that asks for one bar only
TrendEnoughOne(rows) == ~(Len(rows) < 1)

\* len(closes) < 60 raises; the guard of line 214, negated
TrendEnough(rows) == ~(Len(rows) < MinTrendBars)

\* trend(symbol, risk), against the market m of the symbol's pair
trend(m, sym, r) ==
    LET pair == to_pair(sym)
        klines == FetchKlines(m)
    IN  IF klines.status # "ok"
        THEN HTTPException(502, "Market data fetch failed")
        ELSE IF ~TrendEnough(klines.rows)
        THEN HTTPException(502, "Not enough market data")
        ELSE LET sig == TrendSignal(ClosesOf(klines.rows), r)
             IN  [status |-> "ok",
                  symbol |-> pair,
                  horizon |-> "24h",
                  risk_profile |-> r,
                  up_probability |-> Round(sig.up_probability, 4),
                  momentum_score |-> Round(sig.momentum, 4),
                  volatility_regime |-> sig.regime,
                  explanation |-> signal_explanation(sig.momentum, sig.vol,
                                                     sig.regime, r)]

TrendCall ==
    /\ pc = "start" /\ op = "trend"
    /\ result' = trend(market, symbol, risk)
    /\ pc' = IF result'.status = "ok" THEN "done" ELSE "failed"
    /\ UNCHANGED <<svc, aux>>
    /\ UNCHANGED <<op, symbol, risk, lookback, initial_capital, market,
                   closes, times, i, p_up, correct, total, equity, buy_hold,
                   peak, max_dd, curve, wins, trades, tradeLog, lastStep>>

-----------------------------------------------------------------------------
(* backtest: GET /v1/backtest/{symbol}                                     *)

\* the window of the last lookback rows
Window(rows, n) == Suffix(rows, n)

\* closes[: i + 2]: a history that reaches one bar ahead
HistAhead(cs, k) == Prefix(cs, k + 2)

\* closes[: i + 1]
Hist(cs, k) == Prefix(cs, k + 1)

\* the up-probability at index k, from the history up to k
SignalAt(cs, k) ==
    LET hist == Hist(cs, k)
    IN  up_probability(momentum_score(hist), volatility(hist))

\* the locals of a handler, as one record
Locals ==
    [i |-> i, p_up |-> p_up, correct |-> correct, total |-> total,
     equity |-> equity, buy_hold |-> buy_hold, peak |-> peak,
     max_dd |-> max_dd, curve |-> curve, wins |-> wins, trades |-> trades]

NoLocals ==
    [i |-> 0, p_up |-> 0, correct |-> 0, total |-> 0, equity |-> 0,
     buy_hold |-> 0, peak |-> 0, max_dd |-> 0, curve |-> <<>>, wins |-> 0,
     trades |-> 0]

SetLocals(st) ==
    /\ i' = st.i
    /\ p_up' = st.p_up
    /\ correct' = st.correct
    /\ total' = st.total
    /\ equity' = st.equity
    /\ buy_hold' = st.buy_hold
    /\ peak' = st.peak
    /\ max_dd' = st.max_dd
    /\ curve' = st.curve
    /\ wins' = st.wins
    /\ trades' = st.trades

\* len(klines) < lookback raises; the guard of lines 259 and 396, negated
EnoughDataAlways(rows, n) == TRUE

EnoughData(rows, n) == ~(Len(rows) < n)

\* max_dd = dd: the last drawdown instead of the running minimum
RunningMaxDDLast(max_dd_, dd) == dd

\* max_dd = min(max_dd, dd)
RunningMaxDD(max_dd_, dd) == Min(max_dd_, dd)

\* p_up > entry_threshold: a tie that does not enter
BacktestEntersStrict(r, p) == p > entry_threshold(r)

\* p_up >= entry_threshold
BacktestEnters(r, p) == p >= entry_threshold(r)

SetInit ==
    /\ i = 0 /\ p_up = 0 /\ correct = 0 /\ total = 0 /\ equity = 0
    /\ buy_hold = 0 /\ peak = 0 /\ max_dd = 0 /\ curve = <<>>
    /\ wins = 0 /\ trades = 0

BacktestLocals ==
    [NoLocals EXCEPT !.i = StartIndex, !.equity = Scale, !.buy_hold = Scale,
                     !.peak = Scale]

\* one iteration of the loop over range(start, len(closes) - 1)
BacktestBody(cs, ts, r, st) ==
    LET p == SignalAt(cs, st.i)
        next_ret == Div(At(cs, st.i + 1), At(cs, st.i)) - Scale
        pred_up == p >= Pct(50)
        actual_up == next_ret >= 0
        eq == IF BacktestEnters(r, p)
              THEN Mul(st.equity, Scale + next_ret) ELSE st.equity
        bh == Mul(st.buy_hold, Scale + next_ret)
        pk == Max(st.peak, eq)
        dd == Div(eq, pk) - Scale
    IN  [st EXCEPT
           !.p_up = p,
           !.correct = IF pred_up = actual_up THEN @ + 1 ELSE @,
           !.total = @ + 1,
           !.equity = eq,
           !.buy_hold = bh,
           !.peak = pk,
           !.max_dd = RunningMaxDD(@, dd),
           !.curve = Append(@, [t |-> At(ts, st.i + 1),
                                strategy |-> Round(eq, 6),
                                buy_hold |-> Round(bh, 6)]),
           !.i = @ + 1]

\* range(start, len(closes) - 2): a loop that stops one bar early
BacktestLoopDoneEarly(cs, st) == ~(st.i < Len(cs) - 2)

BacktestLoopDone(cs, st) == ~(st.i < Len(cs) - 1)

BacktestResponse(pair, ts, r, st) ==
    IF st.total = 0
    THEN HTTPException(502, "Backtest produced no samples")
    ELSE LET strat_ret == st.equity - Scale
             bh_ret == st.buy_hold - Scale
         IN  [status |-> "ok",
              symbol |-> pair,
              bars_tested |-> st.total,
              risk_profile |-> r,
              signal_accuracy |-> Round(Div(st.correct, st.total), 4),
              strategy_return |-> Round(strat_ret, 4),
              buy_hold_return |-> Round(bh_ret, 4),
              alpha_vs_buy_hold |-> Round(strat_ret - bh_ret, 4),
              max_drawdown |-> Round(st.max_dd, 4),
              start_time |-> At(ts, StartIndex),
              end_time |-> FromEnd(ts, 1),
              equity_curve |-> st.curve]

\* lines 256-275: fetch, the lookback guard, the window and the locals
BacktestBegin ==
    /\ pc = "start" /\ op = "backtest"
    /\ LET klines == FetchKlines(market)
       IN  IF klines.status # "ok"
           THEN /\ pc' = "failed"
                /\ result' = HTTPException(502, "Market data fetch failed")
                /\ UNCHANGED <<closes, times>>
                /\ SetLocals(Locals)
           ELSE IF ~EnoughData(klines.rows, lookback)
           THEN /\ pc' = "failed"
                /\ result' = HTTPException(502, "Not enough market data for requested lookback")
                /\ UNCHANGED <<closes, times>>
                /\ SetLocals(Locals)
           ELSE /\ pc' = "loop"
                /\ closes' = ClosesOf(Window(klines.rows, lookback))
                /\ times' = TimesOf(Window(klines.rows, lookback))
                /\ SetLocals(BacktestLocals)
                /\ UNCHANGED result
    /\ UNCHANGED <<svc, aux>>
    /\ UNCHANGED <<op, symbol, risk, lookback, initial_capital, market,
                   tradeLog, lastStep>>

\* lines 277-300: one bar of the walk-forward loop
BacktestStep ==
    /\ pc = "loop" /\ op = "backtest"
    /\ ~BacktestLoopDone(closes, Locals)
    /\ LET nx == BacktestBody(closes, times, risk, Locals)
       IN  /\ SetLocals(nx)
           /\ lastStep' = [kind |-> "bar", i |-> i,
                           entries |-> Entries
                               + (IF nx.p_up >= entry_threshold(risk) THEN 1 ELSE 0)]
    /\ UNCHANGED <<svc, aux>>
    /\ UNCHANGED <<op, symbol, risk, lookback, initial_capital, market,
                   pc, closes, times, result, tradeLog>>

\* lines 302-322: the response
BacktestReturn ==
    /\ pc = "loop" /\ op = "backtest"
    /\ BacktestLoopDone(closes, Locals)
    /\ result' = BacktestResponse(to_pair(symbol), times, risk, Locals)
    /\ pc' = IF result'.status = "ok" THEN "done" ELSE "failed"
    /\ UNCHANGED <<svc, aux>>
    /\ UNCHANGED <<op, symbol, risk, lookback, initial_capital, market,
                   closes, times, i, p_up, correct, total, equity, buy_hold,
                   peak, max_dd, curve, wins, trades, tradeLog, lastStep>>

-----------------------------------------------------------------------------
(* portfolio_simulate: GET /v1/portfolio/simulate/{symbol}                 *)

SimLocals(capital) ==
    [NoLocals EXCEPT !.i = SimStartIndex, !.equity = capital, !.peak = capital]

\* lines 425-434: for j in range(i + 1, min(i + 25, len(closes))), from j on
RECURSIVE ScanExit(_, _, _, _, _, _)
ScanExit(cs, entry, j, stop, stop_loss, take_profit) ==
    IF j >= stop
    THEN [exited |-> FALSE, j |-> j - 1, exit_ret |-> 0, scanned |-> 0]
    ELSE LET ret == Div(At(cs, j), entry) - Scale
         IN  IF ret <= -stop_loss
             THEN [exited |-> TRUE, j |-> j, exit_ret |-> -stop_loss, scanned |-> 1]
             ELSE IF ret >= take_profit
             THEN [exited |-> TRUE, j |-> j, exit_ret |-> take_profit, scanned |-> 1]
             ELSE LET rest == ScanExit(cs, entry, j + 1, stop, stop_loss, take_profit)
                  IN  [rest EXCEPT !.scanned = @ + 1]

\* a trade held to the time-based exit whatever the bars in between do
TradeExitNoScan(cs, k, rp) ==
    LET j == Min(k + MaxHoldBars, Len(cs) - 1)
    IN  [exited |-> FALSE, j |-> j, exit_ret |-> Div(At(cs, j), At(cs, k)) - Scale,
         scanned |-> j - k]

\* a time-based exit that realizes the target or the stop instead of the
\* return of the exit bar
TradeExitClamped(cs, k, rp) ==
    LET entry == At(cs, k)
        scan == ScanExit(cs, entry, k + 1, Min(k + ScanStop, Len(cs)),
                         rp.stop_loss, rp.take_profit)
        j == Min(k + MaxHoldBars, Len(cs) - 1)
    IN  IF scan.exited
        THEN scan
        ELSE [scan EXCEPT !.j = j,
                          !.exit_ret = IF Div(At(cs, j), entry) - Scale >= 0
                                       THEN rp.take_profit ELSE -rp.stop_loss]

\* a time-based exit one bar after the last bar scanned
TradeExitLate(cs, k, rp) ==
    LET entry == At(cs, k)
        scan == ScanExit(cs, entry, k + 1, Min(k + ScanStop, Len(cs)),
                         rp.stop_loss, rp.take_profit)
    IN  IF scan.exited
        THEN scan
        ELSE LET j == Min(k + MaxHoldBars + 1, Len(cs) - 1)
             IN  [scan EXCEPT !.j = j, !.exit_ret = Div(At(cs, j), entry) - Scale]

\* lines 419-439: the exit of the trade entered at index k
TradeExit(cs, k, rp) ==
    LET entry == At(cs, k)
        scan == ScanExit(cs, entry, k + 1, Min(k + ScanStop, Len(cs)),
                         rp.stop_loss, rp.take_profit)
    IN  IF scan.exited
        THEN scan
        ELSE \* time-based exit
             LET j == Min(k + MaxHoldBars, Len(cs) - 1)
             IN  [scan EXCEPT !.j = j, !.exit_ret = Div(At(cs, j), entry) - Scale]

\* i = j: the cursor stays on the exit bar
NextCursorSame(j) == j

\* i = j + 1
NextCursor(j) == j + 1

SimEnters(r, p) == ~(p < entry_threshold(r))

\* pnl >= 0: a trade that made nothing counted as a win
IsWinNonNegative(pnl) == pnl >= 0

\* line 443: if pnl > 0
IsWin(pnl) == pnl > 0

\* a skipped bar that counts as a trade
SkipStepCounted(st, p) == [st EXCEPT !.p_up = p, !.trades = @ + 1, !.i = @ + 1]

\* lines 415-417: i += 1; continue
SkipStep(st, p) == [st EXCEPT !.p_up = p, !.i = @ + 1]

\* while i < len(closes): a loop that runs to the last bar
SimLoopDoneLate(cs, st) == ~(st.i < Len(cs))

SimLoopDone(cs, st) == ~(st.i < Len(cs) - 2)

\* one iteration of the loop while i < len(closes) - 2
SimBody(cs, r, st) ==
    LET p == SignalAt(cs, st.i)
    IN  IF ~SimEnters(r, p)
        THEN SkipStep(st, p)
        ELSE LET rp == risk_params(r)
                 capital_at_risk == Mul(st.equity, rp.pos_size)
                 ex == TradeExit(cs, st.i, rp)
                 pnl == Mul(capital_at_risk, ex.exit_ret)
                 eq == st.equity + pnl
                 pk == Max(st.peak, eq)
                 dd == Div(eq, pk) - Scale
             IN  [st EXCEPT
                    !.p_up = p,
                    !.trades = @ + 1,
                    !.equity = eq,
                    !.wins = IF IsWin(pnl) THEN @ + 1 ELSE @,
                    !.peak = pk,
                    !.max_dd = RunningMaxDD(@, dd),
                    !.i = NextCursor(ex.j)]

PortfolioSimResponse(pair, r, capital, st) ==
    LET rp == risk_params(r)
        win_rate == IF st.trades # 0 THEN Div(st.wins, st.trades) ELSE 0
        pnl_pct == Div(st.equity, capital) - Scale
    IN  [status |-> "ok",
         symbol |-> pair,
         risk_profile |-> r,
         initial_capital |-> capital,
         position_size_pct |-> Round(rp.pos_size, 4),
         stop_loss_pct |-> Round(rp.stop_loss, 4),
         take_profit_pct |-> Round(rp.take_profit, 4),
         trades |-> st.trades,
         win_rate |-> Round(win_rate, 4),
         final_equity |-> st.equity,
         pnl_pct |-> Round(pnl_pct, 4),
         max_drawdown |-> Round(st.max_dd, 4)]

\* lines 394-406: fetch, the lookback guard, the window and the locals
SimBegin ==
    /\ pc = "start" /\ op = "portfolio_simulate"
    /\ LET klines == FetchKlines(market)
       IN  IF klines.status # "ok"
           THEN /\ pc' = "failed"
                /\ result' = HTTPException(502, "Market data fetch failed")
                /\ UNCHANGED <<closes, times>>
                /\ SetLocals(Locals)
           ELSE IF ~EnoughData(klines.rows, lookback)
           THEN /\ pc' = "failed"
                /\ result' = HTTPException(502, "Not enough market data for requested lookback")
                /\ UNCHANGED <<closes, times>>
                /\ SetLocals(Locals)
           ELSE /\ pc' = "loop"
                /\ closes' = ClosesOf(Window(klines.rows, lookback))
                /\ SetLocals(SimLocals(initial_capital))
                /\ UNCHANGED <<result, times>>
    /\ UNCHANGED <<svc, aux>>
    /\ UNCHANGED <<op, symbol, risk, lookback, initial_capital, market,
                   tradeLog, lastStep>>

\* lines 409-417: a cursor position below the entry threshold
SimSkip ==
    /\ pc = "loop" /\ op = "portfolio_simulate"
    /\ ~SimLoopDone(closes, Locals)
    /\ ~SimEnters(risk, SignalAt(closes, i))
    /\ SetLocals(SimBody(closes, risk, Locals))
    /\ lastStep' = [kind |-> "skip", i |-> i, entries |-> Entries]
    /\ UNCHANGED <<svc, aux>>
    /\ UNCHANGED <<op, symbol, risk, lookback, initial_capital, market,
                   pc, closes, times, result, tradeLog>>

\* lines 409-450: a cursor position that opens a trade, to its exit
SimTrade ==
    /\ pc = "loop" /\ op = "portfolio_simulate"
    /\ ~SimLoopDone(closes, Locals)
    /\ SimEnters(risk, SignalAt(closes, i))
    /\ LET nx == SimBody(closes, risk, Locals)
           ex == TradeExit(closes, i, risk_params(risk))
           trade == [entry |-> i, exit |-> ex.j, exited |-> ex.exited,
                     exit_ret |-> ex.exit_ret, scanned |-> ex.scanned,
                     pnl |-> nx.equity - equity, cursor |-> nx.i]
       IN  /\ SetLocals(nx)
           /\ tradeLog' = Append(tradeLog, trade)
           /\ lastStep' = [kind |-> "trade", i |-> i, entries |-> Entries + 1]
    /\ UNCHANGED <<svc, aux>>
    /\ UNCHANGED <<op, symbol, risk, lookback, initial_capital, market,
                   pc, closes, times, result>>

\* lines 452-468: the response
SimReturn ==
    /\ pc = "loop" /\ op = "portfolio_simulate"
    /\ SimLoopDone(closes, Locals)
    /\ result' = PortfolioSimResponse(to_pair(symbol), risk, initial_capital, Locals)
    /\ pc' = "done"
    /\ UNCHANGED <<svc, aux>>
    /\ UNCHANGED <<op, symbol, risk, lookback, initial_capital, market,
                   closes, times, i, p_up, correct, total, equity, buy_hold,
                   peak, max_dd, curve, wins, trades, tradeLog, lastStep>>

-----------------------------------------------------------------------------
(* The requests of the single handlers.                                    *)

Lookbacks == {MinLookback, MinLookback + 1}
Capitals == {MinCapital, DefaultCapital}
NoResult == [status |-> "none"]

Init ==
    /\ op \in {"backtest", "portfolio_simulate", "trend"}
    /\ symbol = Symbol("btc", FALSE, FALSE)
    /\ risk \in RiskProfile
    /\ lookback \in IF op = "trend" THEN {0} ELSE Lookbacks
    /\ initial_capital \in IF op = "portfolio_simulate" THEN Capitals ELSE {0}
    /\ market \in Markets
    /\ pc = "start"
    /\ closes = <<>>
    /\ times = <<>>
    /\ SetInit
    /\ result = NoResult
    /\ tradeLog = <<>>
    /\ lastStep = NoStep
    /\ endpoint = "direct"
    /\ exchange = [b \in Bases |-> market]
    /\ symbols = <<>>
    /\ max_symbols = 0
    /\ watchlist_file = Missing
    /\ alerts_file = Missing
    /\ bpc = "direct"
    /\ queue = <<>>
    /\ out = <<>>
    /\ raised = <<>>
    /\ AuxIdle

Next ==
    \/ BacktestBegin
    \/ BacktestStep
    \/ BacktestReturn
    \/ SimBegin
    \/ SimSkip
    \/ SimTrade
    \/ SimReturn
    \/ TrendCall

Spec == Init /\ [][Next]_vars

\* portfolio_simulate alone, run to its return
InitSim ==
    /\ Init
    /\ op = "portfolio_simulate"

NextSim ==
    \/ SimBegin
    \/ SimSkip
    \/ SimTrade
    \/ SimReturn

\* the handler runs on: weak fairness of its steps, WF_vars(NextSim), with
\* ENABLED <<NextSim>>_vars written out. A step is possible exactly while pc
\* is "start" or "loop" (SimBegin at "start"; at "loop" the guards of
\* SimSkip, SimTrade and SimReturn cover every case), and every step changes
\* pc or i.
SimRunsOn ==
    \/ []<>(pc \notin {"start", "loop"})
    \/ []<><<NextSim>>_vars

SpecSim == InitSim /\ [][NextSim]_vars /\ SimRunsOn

-----------------------------------------------------------------------------
(* The state files and the endpoints that evaluate several symbols.        *)

MaxSymbolsDefault == 200
MaxSymbolsMin == 1

File(content) == [exists |-> TRUE, content |-> content]

\* _load_json: the parsed file, or the default when it does not exist
load_json(file, default) == IF ~file.exists THEN default ELSE file.content

Pair(base) == Symbol(base, TRUE, TRUE)
DefaultWatchlist == <<Pair("BTC"), Pair("ETH"), Pair("SOL")>>

InSeq(x, seq) == \E n \in 1..Len(seq) : seq[n] = x

SetOf(seq) == {seq[n] : n \in 1..Len(seq)}

\* the loop of _load_watchlist: normalise, keep the first occurrence
RECURSIVE CleanPairs(_, _)
CleanPairs(data, acc) ==
    IF data = <<>> THEN acc
    ELSE LET pair == to_pair(Head(data))
         IN  CleanPairs(Tail(data),
                        IF InSeq(pair, acc) THEN acc ELSE Append(acc, pair))

load_watchlist(file) == CleanPairs(load_json(file, DefaultWatchlist), <<>>)

outlook_from_probability(p) ==
    IF p >= Pct(56) THEN "bullish"
    ELSE IF p <= Pct(44) THEN "bearish"
    ELSE "neutral"

\* the market the exchange answers with for the pair of sym
MarketOf(sym) == exchange[to_pair(sym).base]

\* a token of symbols.split(",") that is empty once stripped
Blank == Symbol("", FALSE, FALSE)

\* lines 238-247: the loop of trend_batch over the tokens left
RECURSIVE TrendBatchLoop(_, _, _)
TrendBatchLoop(toks, r, acc) ==
    IF toks = <<>> THEN acc
    ELSE LET s == Head(toks)
         IN  IF s = Blank
             THEN TrendBatchLoop(Tail(toks), r, acc)
             ELSE LET t == trend(MarketOf(s), s, r)
                  IN  IF t.status = "HTTPException"
                      THEN TrendBatchLoop(Tail(toks), r,
                               [acc EXCEPT !.raised = Append(@, to_pair(s))])
                      ELSE TrendBatchLoop(Tail(toks), r,
                               [acc EXCEPT !.out = Append(@, t)])

\* old and old == now: a flip reported when the label did not change
FlippedSame(prev, s, now) == s \in DOMAIN prev /\ prev[s] = now

\* line 188: old = prev.get(symbol); old and old != now
Flipped(prev, s, now) == s \in DOMAIN prev /\ prev[s] # now

\* the alert state saved as the previous one updated with the labels of
\* this poll
NextAlertStateMerged(prev, next_state) == DictUpdate(prev, next_state)

\* line 199: what _save_json(ALERTS_FILE, next_state) writes
NextAlertState(prev, next_state) == next_state

\* lines 181-197: the loop of alerts_check over the symbols left
RECURSIVE AlertsLoop(_, _, _, _)
AlertsLoop(syms, r, prev, acc) ==
    IF syms = <<>> THEN acc
    ELSE LET s == Head(syms)
             t == trend(MarketOf(s), s, r)
         IN  IF t.status = "HTTPException"
             THEN AlertsLoop(Tail(syms), r, prev,
                      [acc EXCEPT !.raised = Append(@, to_pair(s))])
             ELSE LET now == outlook_from_probability(t.up_probability)
                      flip == [symbol |-> s, from_outlook |-> prev[s],
                               to_outlook |-> now,
                               up_probability |-> Round(t.up_probability, 4)]
                  IN  AlertsLoop(Tail(syms), r, prev,
                          [acc EXCEPT
                             !.out = IF Flipped(prev, s, now)
                                     THEN Append(@, flip) ELSE @,
                             !.next_state = DictPut(@, s, now)])

\* GET /v1/trends
TrendBatchCall ==
    /\ endpoint = "trend_batch" /\ bpc = "idle"
    /\ LET done == TrendBatchLoop(symbols, risk, [out |-> <<>>, raised |-> <<>>])
       IN  /\ out' = done.out
           /\ raised' = done.raised
    /\ bpc' = "answered"
    /\ UNCHANGED <<call, aux>>
    /\ UNCHANGED <<endpoint, exchange, symbols, max_symbols, watchlist_file,
                   alerts_file, queue>>

\* GET /v1/alerts/check
AlertsCheckCall ==
    /\ endpoint = "alerts_check" /\ bpc = "idle"
    /\ LET syms == Prefix(load_watchlist(watchlist_file), max_symbols)
           prev == load_json(alerts_file, EmptyDict)
           done == AlertsLoop(syms, risk, prev,
                      [out |-> <<>>, raised |-> <<>>, next_state |-> EmptyDict])
       IN  /\ symbols' = syms
           /\ out' = done.out
           /\ raised' = done.raised
           /\ alerts_file' = File(NextAlertState(prev, done.next_state))
           /\ pollLog' = [polls |-> pollLog.polls + 1,
                          prev |-> prev,
                          known |-> pollLog.latest,
                          latest |-> DictUpdate(pollLog.latest, done.next_state),
                          failed |-> SetOf(done.raised),
                          cut |-> SetOf(load_watchlist(watchlist_file))
                                      \ SetOf(syms),
                          failed_before |-> pollLog.failed,
                          cut_before |-> pollLog.cut]
    /\ bpc' = "answered"
    /\ UNCHANGED call
    /\ UNCHANGED <<requests, universe_file, coingecko, outlooks>>
    /\ UNCHANGED <<endpoint, exchange, max_symbols, watchlist_file, queue>>

\* GET /v1/backtest: line 331
BacktestBatchCall ==
    /\ endpoint = "backtest_batch" /\ bpc = "idle"
    /\ queue' = symbols
    /\ out' = <<>>
    /\ bpc' = "loop"
    /\ UNCHANGED <<call, aux>>
    /\ UNCHANGED <<endpoint, exchange, symbols, max_symbols, watchlist_file,
                   alerts_file, raised>>

\* lines 332-337: the next token; a blank one is skipped, another is handed
\* to backtest
BacktestBatchNext ==
    /\ endpoint = "backtest_batch" /\ bpc = "loop"
    /\ queue # <<>>
    /\ IF Head(queue) = Blank
       THEN /\ queue' = Tail(queue)
            /\ UNCHANGED <<bpc, call>>
       ELSE /\ symbol' = Head(queue)
            /\ market' = MarketOf(Head(queue))
            /\ pc' = "start"
            /\ bpc' = "call"
            /\ closes' = <<>> /\ times' = <<>>
            /\ SetLocals(NoLocals)
            /\ result' = [status |-> "none"]
            /\ lastStep' = NoStep
            /\ UNCHANGED <<op, risk, lookback, initial_capital, tradeLog, queue>>
    /\ UNCHANGED aux
    /\ UNCHANGED <<endpoint, exchange, symbols, max_symbols, watchlist_file,
                   alerts_file, out, raised>>

\* lines 337-339: the response is appended, an HTTPException is dropped
BacktestBatchCollect ==
    /\ endpoint = "backtest_batch" /\ bpc = "call"
    /\ pc \in {"done", "failed"}
    /\ IF pc = "done"
       THEN out' = Append(out, result) /\ UNCHANGED raised
       ELSE raised' = Append(raised, to_pair(symbol)) /\ UNCHANGED out
    /\ queue' = Tail(queue)
    /\ bpc' = "loop"
    /\ pc' = "idle"
    /\ UNCHANGED <<op, symbol, risk, lookback, initial_capital, market,
                   closes, times, i, p_up, correct, total, equity, buy_hold,
                   peak, max_dd, curve, wins, trades, result, tradeLog, lastStep>>
    /\ UNCHANGED <<endpoint, exchange, symbols, max_symbols, watchlist_file,
                   alerts_file>>
    /\ UNCHANGED aux

\* line 340
BacktestBatchReturn ==
    /\ endpoint = "backtest_batch" /\ bpc = "loop"
    /\ queue = <<>>
    /\ bpc' = "answered"
    /\ UNCHANGED <<call, aux>>
    /\ UNCHANGED <<endpoint, exchange, symbols, max_symbols, watchlist_file,
                   alerts_file, queue, out, raised>>

Up == [a |-> 1, b |-> 1, c |-> 1]

ServiceMarkets ==
    {[status |-> "error", pattern |-> Flat, bars |-> 0],
     [status |-> "ok", pattern |-> Flat, bars |-> MinTrendBars - 1],
     [status |-> "ok", pattern |-> Up, bars |-> MinLookback + ExtraBars],
     [status |-> "ok", pattern |-> Down, bars |-> MinLookback + ExtraBars]}

Exchanges ==
    {e \in [Bases -> ServiceMarkets] :
        e["SOL"].pattern \in {Flat}}

\* the request spellings of symbols
Tokens == {Symbol("BTC", FALSE, FALSE), Symbol("ETH", TRUE, TRUE)}

SymbolLists ==
    {<<Symbol("BTC", FALSE, FALSE)>>,
     <<Symbol("BTC", FALSE, FALSE), Symbol("ETH", TRUE, TRUE)>>,
     <<Symbol("ETH", TRUE, TRUE), Blank, Symbol("BTC", FALSE, FALSE)>>}

WatchlistFiles ==
    {Missing,
     File(<<Symbol("ETH", TRUE, TRUE), Symbol("BTC", FALSE, FALSE),
            Symbol("ETH", TRUE, FALSE)>>)}

AlertsFiles ==
    {Missing,
     File([x \in {Pair("BTC"), Pair("ETH")} |->
              IF x = Pair("BTC") THEN "bullish" ELSE "bearish"])}

InitService ==
    /\ endpoint \in {"trend", "trend_batch", "backtest_batch", "alerts_check"}
    /\ exchange \in Exchanges
    /\ risk \in IF endpoint = "backtest_batch" THEN {"moderate"} ELSE RiskProfile
    /\ symbols \in IF endpoint = "trend" THEN {<<t>> : t \in Tokens}
                   ELSE IF endpoint = "alerts_check" THEN {<<>>}
                   ELSE SymbolLists
    /\ symbol = IF endpoint = "trend" THEN symbols[1] ELSE Blank
    /\ market = IF endpoint = "trend" THEN MarketOf(symbol)
                ELSE [status |-> "error", pattern |-> Flat, bars |-> 0]
    /\ op = IF endpoint = "backtest_batch" THEN "backtest" ELSE "trend"
    /\ lookback = IF endpoint = "backtest_batch" THEN MinLookback ELSE 0
    /\ initial_capital = 0
    /\ max_symbols \in IF endpoint = "alerts_check"
                       THEN {MaxSymbolsMin, MaxSymbolsDefault} ELSE {0}
    /\ watchlist_file \in IF endpoint = "alerts_check" THEN WatchlistFiles
                          ELSE {Missing}
    /\ alerts_file \in IF endpoint = "alerts_check" THEN AlertsFiles
                       ELSE {Missing}
    /\ pc = IF endpoint = "trend" THEN "start" ELSE "idle"
    /\ bpc = IF endpoint = "trend" THEN "direct" ELSE "idle"
    /\ closes = <<>>
    /\ times = <<>>
    /\ SetInit
    /\ result = [status |-> "none"]
    /\ tradeLog = <<>>
    /\ lastStep = NoStep
    /\ queue = <<>>
    /\ out = <<>>
    /\ raised = <<>>
    /\ AuxIdle

NextService ==
    \/ TrendCall
    \/ TrendBatchCall
    \/ AlertsCheckCall
    \/ BacktestBatchCall
    \/ BacktestBatchNext
    \/ BacktestBatchCollect
    \/ BacktestBatchReturn
    \/ BacktestBegin
    \/ BacktestStep
    \/ BacktestReturn

SpecService == InitService /\ [][NextService]_vars

-----------------------------------------------------------------------------
(* explain: GET /v1/explain/{symbol}, and the label of a probability.      *)

Abs(x) == IF x < 0 THEN -x ELSE x

\* a label that is bearish only strictly below 0.44
ExplainOutlookStrict(p) ==
    IF p >= Pct(56) THEN "bullish"
    ELSE IF p < Pct(44) THEN "bearish"
    ELSE "neutral"

\* lines 351-356: the branches of explain on t.up_probability
ExplainOutlook(p) ==
    IF p >= Pct(56) THEN "bullish"
    ELSE IF p <= Pct(44) THEN "bearish"
    ELSE "neutral"

\* explain(symbol, risk), against the market m of the symbol's pair; the
\* HTTPException of trend propagates
explain(m, sym, r) ==
    LET t == trend(m, sym, r)
    IN  IF t.status = "HTTPException" THEN t
        ELSE LET confidence == Abs(t.up_probability - Pct(50)) * 2
             IN  [status |-> "ok",
                  symbol |-> t.symbol,
                  risk_profile |-> r,
                  outlook |-> ExplainOutlook(t.up_probability),
                  confidence |-> Round(confidence, 4),
                  drivers |-> <<Round(t.momentum_score, 3), t.volatility_regime,
                                Round(t.up_probability, 3)>>,
                  caution |-> <<t.volatility_regime = "high", r = "aggressive">>]

\* no handler running and no batch endpoint called
CallIdle ==
    /\ op = "none"
    /\ symbol = Symbol("", FALSE, FALSE)
    /\ risk = "moderate"
    /\ lookback = 0
    /\ initial_capital = 0
    /\ market = [status |-> "error", pattern |-> Flat, bars |-> 0]
    /\ pc = "idle"
    /\ closes = <<>>
    /\ times = <<>>
    /\ SetInit
    /\ result = NoResult
    /\ tradeLog = <<>>
    /\ lastStep = NoStep

SvcIdle ==
    /\ endpoint = "none"
    /\ exchange = [b \in Bases |-> [status |-> "error", pattern |-> Flat, bars |-> 0]]
    /\ symbols = <<>>
    /\ max_symbols = 0
    /\ watchlist_file = Missing
    /\ alerts_file = Missing
    /\ bpc = "idle"
    /\ queue = <<>>
    /\ out = <<>>
    /\ raised = <<>>

\* the values of round(up_probability, 4)
Probabilities == 0..Scale

\* lines 351-356 on a TrendResponse whose up_probability is outlooks.p
ExplainLabel ==
    /\ outlooks.explain = "none"
    /\ outlooks' = [outlooks EXCEPT !.explain = ExplainOutlook(outlooks.p)]
    /\ UNCHANGED <<call, svc>>
    /\ UNCHANGED <<requests, universe_file, coingecko, pollLog>>

\* line 186 on the same TrendResponse
AlertLabel ==
    /\ outlooks.alert = "none"
    /\ outlooks' = [outlooks EXCEPT !.alert = outlook_from_probability(outlooks.p)]
    /\ UNCHANGED <<call, svc>>
    /\ UNCHANGED <<requests, universe_file, coingecko, pollLog>>

InitOutlook ==
    /\ CallIdle
    /\ SvcIdle
    /\ requests = NoRequests
    /\ universe_file = Missing
    /\ coingecko = Unreachable
    /\ pollLog = NoPoll
    /\ outlooks \in [p : Probabilities, explain : {"none"}, alert : {"none"}]

NextOutlook ==
    \/ ExplainLabel
    \/ AlertLabel

SpecOutlook == InitOutlook /\ [][NextOutlook]_vars

-----------------------------------------------------------------------------
(* alerts_check polled again and again, the market moving between polls.   *)

\* how many polls a behaviour makes
MaxPolls == 3

AlertMarkets ==
    {[status |-> "error", pattern |-> Flat, bars |-> 0],
     [status |-> "ok", pattern |-> Flat, bars |-> MinTrendBars - 1],
     [status |-> "ok", pattern |-> Flat, bars |-> MinTrendBars],
     [status |-> "ok", pattern |-> Up, bars |-> MinTrendBars],
     [status |-> "ok", pattern |-> Down, bars |-> MinTrendBars]}

\* BTC rises, falls, has a bar too few or cannot be fetched; ETH rises or
\* falls; SOL stays flat
AlertExchanges ==
    {e \in [Bases -> AlertMarkets] :
        /\ e["BTC"].pattern # Flat \/ e["BTC"].bars < MinTrendBars
        /\ e["ETH"].pattern \in {Up, Down}
        /\ e["SOL"] = [status |-> "ok", pattern |-> Flat, bars |-> MinTrendBars]}

\* no watchlist saved yet, or the one left after SOL and BTC were removed
\* and BTC added again
AlertWatchlists == {Missing, File(<<Pair("ETH"), Pair("BTC")>>)}

\* the next request of the poller: the exchange has other bars by now, and
\* max_symbols is the caller's choice
NextPoll ==
    /\ endpoint = "alerts_check" /\ bpc = "answered"
    /\ pollLog.polls < MaxPolls
    /\ exchange' \in AlertExchanges
    /\ max_symbols' \in {MaxSymbolsMin, MaxSymbolsDefault}
    /\ bpc' = "idle"
    /\ symbols' = <<>>
    /\ out' = <<>>
    /\ raised' = <<>>
    /\ UNCHANGED call
    /\ UNCHANGED <<endpoint, watchlist_file, alerts_file, queue>>
    /\ UNCHANGED aux

InitAlerts ==
    /\ CallIdle
    /\ endpoint = "alerts_check"
    /\ exchange \in AlertExchanges
    /\ symbols = <<>>
    /\ max_symbols \in {MaxSymbolsMin, MaxSymbolsDefault}
    /\ watchlist_file \in AlertWatchlists
    /\ alerts_file = Missing
    /\ bpc = "idle"
    /\ queue = <<>>
    /\ out = <<>>
    /\ raised = <<>>
    /\ AuxIdle

NextAlerts ==
    \/ AlertsCheckCall
    \/ NextPoll

SpecAlerts == InitAlerts /\ [][NextAlerts]_vars

-----------------------------------------------------------------------------
(* The watchlist: add_watchlist, remove_watchlist and                      *)
(* import_watchlist_from_coingecko, each a request that reads the file,    *)
(* computes and writes it back.                                            *)

\* how many requests a sequential behaviour makes, and how many requests
\* are in flight at once in a concurrent one
MaxRequests == 3
MaxConcurrent == 2

\* _save_watchlist: normalise, keep the first occurrence, write the file
save_watchlist(syms) == File(CleanPairs(syms, <<>>))

\* [s for s in seq if s != x]
RECURSIVE Without(_, _)
Without(seq, x) ==
    IF seq = <<>> THEN <<>>
    ELSE IF Head(seq) = x THEN Without(Tail(seq), x)
    ELSE <<Head(seq)>> \o Without(Tail(seq), x)

\* an entry of CoinGecko's /coins/list
Coin(id, sym, name) == [id |-> id, symbol |-> sym, name |-> name]

\* a symbol of white space only
Spaces == Symbol(" ", FALSE, FALSE)

\* str(x).strip().lower() of a symbol
StripLower(sym) ==
    IF sym = Spaces THEN Symbol("", FALSE, FALSE)
    ELSE [sym EXCEPT !.upper = FALSE]

\* lines 497-505: the entries with an id, a symbol and a name, cleaned
RECURSIVE CleanCoins(_)
CleanCoins(raw) ==
    IF raw = <<>> THEN <<>>
    ELSE LET c == Head(raw)
         IN  IF c.id # "" /\ c.symbol # Symbol("", FALSE, FALSE) /\ c.name # ""
             THEN <<Coin(c.id, StripLower(c.symbol), c.name)>> \o CleanCoins(Tail(raw))
             ELSE CleanCoins(Tail(raw))

\* _load_coingecko_universe(refresh) when the request to CoinGecko, if it
\* is made, is answered by answer: the coins returned and the cache file
\* as it is left
load_coingecko_universe(file, refresh, answer) ==
    LET cached == load_json(file, <<>>)
    IN  IF cached # <<>> /\ ~refresh
        THEN [coins |-> cached, file |-> file]
        ELSE IF answer.status = "ok"
        THEN [coins |-> CleanCoins(answer.coins),
              file |-> File(CleanCoins(answer.coins))]
        ELSE [coins |-> IF cached # <<>> THEN cached ELSE <<>>, file |-> file]

\* line 145: [_to_pair(c.get("symbol", "")) for c in coins if c.get("symbol")]
RECURSIVE PairsOf(_)
PairsOf(coins) ==
    IF coins = <<>> THEN <<>>
    ELSE IF Head(coins).symbol # Symbol("", FALSE, FALSE)
    THEN <<to_pair(Head(coins).symbol)>> \o PairsOf(Tail(coins))
    ELSE PairsOf(Tail(coins))

\* the list an import saves: the watchlist kept and the universe added
ImportedListMerged(old, syms) == old \o syms

\* lines 145-146: the list an import saves
ImportedList(old, syms) == syms

\* the list an add saves, read again from the file at the time of the save
AddedListFresh(file, current, pair) == Append(load_watchlist(file), pair)

\* lines 129-130: current.append(pair), on the list loaded at line 127
AddedList(file, current, pair) == Append(current, pair)

\* a request, before its handler starts
Request(o, sym, refresh) ==
    [op |-> o, symbol |-> sym, refresh |-> refresh, pc |-> "start",
     current |-> <<>>, coins |-> <<>>, answer |-> "none",
     before |-> Missing, after |-> Missing,
     universe_before |-> Missing, universe_after |-> Missing,
     saved |-> FALSE, stale |-> FALSE, response |-> <<>>]

WatchSymbols ==
    {Symbol("BTC", FALSE, FALSE), Symbol("ADA", FALSE, FALSE),
     Symbol("ADA", TRUE, TRUE), Symbol("XRP", TRUE, FALSE)}

NewRequests ==
    {Request(o, sym, FALSE) : o \in {"add", "remove"}, sym \in WatchSymbols}
    \cup {Request("import", Symbol("", FALSE, FALSE), r) : r \in BOOLEAN}

\* what CoinGecko may answer: an error, an empty list, or a list with a
\* symbol in upper case, a symbol listed twice, a symbol of white space and
\* an entry without id
CoinGeckoAnswers ==
    {Unreachable,
     [status |-> "ok", coins |-> <<>>],
     [status |-> "ok",
      coins |-> <<Coin("bitcoin", Symbol("BTC", FALSE, FALSE), "Bitcoin"),
                  Coin("cardano", Symbol("ADA", TRUE, FALSE), "Cardano"),
                  Coin("bitcoin-2", Symbol("BTC", FALSE, FALSE), "Bitcoin 2"),
                  Coin("blank", Spaces, "Blank"),
                  Coin("", Symbol("XRP", FALSE, FALSE), "No id")>>]}

AllDone == \A n \in 1..Len(requests) : requests[n].pc = "done"

WatchlistFrame ==
    /\ UNCHANGED call
    /\ UNCHANGED <<endpoint, exchange, symbols, max_symbols, alerts_file, bpc,
                   queue, out, raised>>
    /\ UNCHANGED <<pollLog, outlooks>>

\* a request arrives once the ones before it were answered
Arrive ==
    /\ Len(requests) < MaxRequests
    /\ AllDone
    /\ \E r \in NewRequests : requests' = Append(requests, r)
    /\ UNCHANGED <<watchlist_file, universe_file, coingecko>>
    /\ WatchlistFrame

\* a request arrives while others are in flight
ArriveConcurrently ==
    /\ Len(requests) < MaxConcurrent
    /\ \E r \in {q \in NewRequests : q.op # "import"} :
          requests' = Append(requests, r)
    /\ UNCHANGED <<watchlist_file, universe_file, coingecko>>
    /\ WatchlistFrame

\* lines 126-127: pair = _to_pair(symbol); current = _load_watchlist()
AddLoad(n) ==
    /\ requests[n].op = "add" /\ requests[n].pc = "start"
    /\ requests' = [requests EXCEPT
                      ![n].pc = "loaded",
                      ![n].current = load_watchlist(watchlist_file),
                      ![n].before = watchlist_file]
    /\ UNCHANGED <<watchlist_file, universe_file, coingecko>>
    /\ WatchlistFrame

\* lines 128-131: the pair is appended and the list saved, unless the list
\* loaded holds it
AddSave(n) ==
    /\ requests[n].op = "add" /\ requests[n].pc = "loaded"
    /\ LET r == requests[n]
           pair == to_pair(r.symbol)
       IN  IF ~InSeq(pair, r.current)
           THEN LET current == AddedList(watchlist_file, r.current, pair)
                IN  /\ watchlist_file' = save_watchlist(current)
                    /\ requests' = [requests EXCEPT
                                      ![n].pc = "done",
                                      ![n].current = current,
                                      ![n].saved = TRUE,
                                      ![n].stale = (watchlist_file # r.before),
                                      ![n].after = watchlist_file',
                                      ![n].response = current]
           ELSE /\ UNCHANGED watchlist_file
                /\ requests' = [requests EXCEPT
                                  ![n].pc = "done",
                                  ![n].stale = (watchlist_file # r.before),
                                  ![n].after = watchlist_file,
                                  ![n].response = r.current]
    /\ UNCHANGED <<universe_file, coingecko>>
    /\ WatchlistFrame

\* lines 136-137: current = [s for s in _load_watchlist() if s != pair]
RemoveLoad(n) ==
    /\ requests[n].op = "remove" /\ requests[n].pc = "start"
    /\ requests' = [requests EXCEPT
                      ![n].pc = "loaded",
                      ![n].current = Without(load_watchlist(watchlist_file),
                                             to_pair(requests[n].symbol)),
                      ![n].before = watchlist_file]
    /\ UNCHANGED <<watchlist_file, universe_file, coingecko>>
    /\ WatchlistFrame

\* lines 138-139: _save_watchlist(current)
RemoveSave(n) ==
    /\ requests[n].op = "remove" /\ requests[n].pc = "loaded"
    /\ watchlist_file' = save_watchlist(requests[n].current)
    /\ requests' = [requests EXCEPT
                      ![n].pc = "done",
                      ![n].saved = TRUE,
                      ![n].stale = (watchlist_file # requests[n].before),
                      ![n].after = watchlist_file',
                      ![n].response = requests[n].current]
    /\ UNCHANGED <<universe_file, coingecko>>
    /\ WatchlistFrame

\* lines 144-145: the universe is loaded, from the cache or from CoinGecko,
\* and its symbols made pairs
ImportLoad(n) ==
    /\ requests[n].op = "import" /\ requests[n].pc = "start"
    /\ \E answer \in CoinGeckoAnswers :
          LET u == load_coingecko_universe(universe_file, requests[n].refresh,
                                           answer)
          IN  /\ coingecko' = answer
              /\ universe_file' = u.file
              /\ requests' = [requests EXCEPT
                                ![n].pc = "loaded",
                                ![n].coins = u.coins,
                                ![n].answer = answer.status,
                                ![n].current = ImportedList(
                                    load_watchlist(watchlist_file), PairsOf(u.coins)),
                                ![n].before = watchlist_file,
                                ![n].universe_before = universe_file,
                                ![n].universe_after = u.file]
    /\ UNCHANGED watchlist_file
    /\ WatchlistFrame

\* line 146: _save_watchlist(symbols)
ImportSave(n) ==
    /\ requests[n].op = "import" /\ requests[n].pc = "loaded"
    /\ watchlist_file' = save_watchlist(requests[n].current)
    /\ requests' = [requests EXCEPT
                      ![n].pc = "saved",
                      ![n].saved = TRUE,
                      ![n].stale = (watchlist_file # requests[n].before),
                      ![n].after = watchlist_file']
    /\ UNCHANGED <<universe_file, coingecko>>
    /\ WatchlistFrame

\* line 147: the response is the watchlist read back
ImportReturn(n) ==
    /\ requests[n].op = "import" /\ requests[n].pc = "saved"
    /\ requests' = [requests EXCEPT
                      ![n].pc = "done",
                      ![n].response = load_watchlist(watchlist_file)]
    /\ UNCHANGED <<watchlist_file, universe_file, coingecko>>
    /\ WatchlistFrame

InitWatchlist ==
    /\ CallIdle
    /\ SvcIdle
    /\ AuxIdle

\* requests handled one after the other
NextWatchlistSeq ==
    \/ Arrive
    \/ \E n \in 1..Len(requests) :
          \/ AddLoad(n)
          \/ AddSave(n)
          \/ RemoveLoad(n)
          \/ RemoveSave(n)
          \/ ImportLoad(n)
          \/ ImportSave(n)
          \/ ImportReturn(n)

SpecWatchlistSeq == InitWatchlist /\ [][NextWatchlistSeq]_vars

\* add and remove requests handled by concurrent workers
NextWatchlist ==
    \/ ArriveConcurrently
    \/ \E n \in 1..Len(requests) :
          \/ AddLoad(n)
          \/ AddSave(n)
          \/ RemoveLoad(n)
          \/ RemoveSave(n)

SpecWatchlist == InitWatchlist /\ [][NextWatchlist]_vars

-----------------------------------------------------------------------------
(* Properties of the trade simulator and of the backtest.                  *)

InSim == op = "portfolio_simulate" /\ pc \in {"loop", "done"}
InBacktest == op = "backtest" /\ pc \in {"loop", "done"}

\* the return of bar j against the entry bar k, as line 426 computes it
RetAt(k, j) == Div(At(closes, j), At(closes, k)) - Scale

\* the bars a trade entered at k may scan: k + 1 .. min(k + 24, L - 1)
ScanBars(k) == (k + 1)..Min(k + 24, Len(closes) - 1)

\* the bars of ScanBars(k) at which the stop or the target is hit
HitBars(k) ==
    {j \in ScanBars(k) :
        \/ RetAt(k, j) <= -risk_params(risk).stop_loss
        \/ RetAt(k, j) >= risk_params(risk).take_profit}

FirstOf(S) == CHOOSE j \in S : \A h \in S : j <= h

\* C1: trades do not overlap: a trade entered at i exits at some j > i, and
\* the next trade is entered at an index >= j + 1, so entry indices strictly
\* increase and no bar lies in the [entry, exit] range of two trades.
C1_TradesDoNotOverlap ==
    \A n \in 1..Len(tradeLog) :
        /\ tradeLog[n].entry < tradeLog[n].exit
        /\ n > 1 => /\ tradeLog[n].entry >= tradeLog[n - 1].exit + 1
                    /\ tradeLog[n].entry > tradeLog[n - 1].entry
                    /\ \A b \in tradeLog[n].entry..tradeLog[n].exit :
                          b \notin tradeLog[n - 1].entry..tradeLog[n - 1].exit

\* two trades, the second entered on the bar right after the first's exit
C1_Witness ==
    /\ InSim
    /\ Len(tradeLog) >= 2
    /\ tradeLog[2].entry = tradeLog[1].exit + 1

\* the series that agree with cs on the indices 0..k and differ from it on
\* every later index
Futures(cs, k) ==
    {[n \in 1..Len(cs) |-> IF n <= k + 1 THEN cs[n] ELSE cs[n] + d] :
        d \in {-(BasePrice \div 10), BasePrice \div 10}}

\* C2: no look-ahead: the up-probability of the step at index i, and with it
\* predicted_up and the enter/skip decision, is the same for every series
\* that agrees with closes on 0..i, whatever its values at i + 1 and later.
C2_NoLookAhead ==
    (pc \in {"loop", "done"} /\ lastStep.kind # "none") =>
        \A alt \in Futures(closes, lastStep.i) :
            /\ SignalAt(alt, lastStep.i) = p_up
            /\ (SignalAt(alt, lastStep.i) >= Pct(50)) = (p_up >= Pct(50))
            /\ (SignalAt(alt, lastStep.i) >= entry_threshold(risk))
                  = (p_up >= entry_threshold(risk))

\* a step that entered, on a series whose alternatives differ at i + 1
C2_Witness ==
    /\ pc = "loop"
    /\ lastStep.kind \in {"bar", "trade"}
    /\ p_up >= entry_threshold(risk)
    /\ lastStep.i + 2 <= Len(closes)
    /\ \A alt \in Futures(closes, lastStep.i) :
          At(alt, lastStep.i + 1) # At(closes, lastStep.i + 1)

\* C3: backtest evaluates exactly the steps 60 .. lookback - 2 of the last
\* lookback bars, counting each one: bars_tested = lookback - 1 - 60, and
\* the equity curve has that many points.
C3_BarsTested ==
    /\ (op = "backtest" /\ pc = "loop") =>
          /\ Len(closes) = lookback
          /\ closes = [n \in 1..lookback |->
                          Close(market.pattern, market.bars - lookback + n - 1)]
          /\ i \in 60..(lookback - 1)
          /\ total = i - 60
          /\ Len(curve) = total
          /\ \A n \in 1..Len(curve) :
                curve[n].t = (market.bars - lookback) + 60 + n
    /\ (op = "backtest" /\ pc = "done") =>
          /\ i = lookback - 1
          /\ result.bars_tested = lookback - 1 - 60
          /\ Len(result.equity_curve) = lookback - 1 - 60

\* a finished backtest of a series longer than the lookback
C3_Witness ==
    /\ op = "backtest" /\ pc = "done"
    /\ market.bars > lookback
    /\ result.bars_tested = lookback - 61

\* C4: max_drawdown starts at 0, is never positive and never increases from
\* one loop step to the next; the peak never decreases and is at least the
\* current equity after each update.
C4_DrawdownMonotone ==
    /\ [](pc \in {"loop", "done"} => (max_dd <= 0 /\ peak >= equity))
    /\ [][/\ (pc = "start" /\ pc' = "loop") => max_dd' = 0
          /\ pc = "loop" => (max_dd' <= max_dd /\ peak' >= peak)]_vars

\* equity is back at its peak after a drawdown, which max_dd still records
C4_Witness ==
    /\ pc = "loop"
    /\ max_dd < 0
    /\ equity = peak
    /\ Div(equity, peak) - Scale > max_dd

\* C5: a trade entered at i exits at the first bar j of i + 1 .. min(i + 24,
\* L - 1) whose return hits the stop or the target; it realizes exactly
\* -stop_loss_pct or +take_profit_pct, and no bar after j is examined.
C5_FirstHitExit ==
    InSim =>
        \A n \in 1..Len(tradeLog) :
            LET t == tradeLog[n]
                hits == HitBars(t.entry)
            IN  hits # {} =>
                    LET j == FirstOf(hits)
                    IN  /\ t.exited
                        /\ t.exit = j
                        /\ t.exit_ret =
                              IF RetAt(t.entry, j) <= -risk_params(risk).stop_loss
                              THEN -risk_params(risk).stop_loss
                              ELSE risk_params(risk).take_profit
                        /\ t.scanned = j - t.entry

\* a stopped trade and a trade that took profit, each before its horizon
C5_Witness ==
    /\ InSim
    /\ \E n \in 1..Len(tradeLog) :
          /\ tradeLog[n].exited
          /\ tradeLog[n].exit_ret = -risk_params(risk).stop_loss
          /\ tradeLog[n].exit < tradeLog[n].entry + 24
    /\ \E n \in 1..Len(tradeLog) :
          /\ tradeLog[n].exited
          /\ tradeLog[n].exit_ret = risk_params(risk).take_profit
          /\ tradeLog[n].exit < tradeLog[n].entry + 24

\* C6: a trade entered at i with no stop or target hit in i + 1 .. min(i +
\* 24, L - 1) closes at j = min(i + 24, L - 1) with the actual return of
\* bar j, and the cursor moves to j + 1.
C6_TimeExit ==
    InSim =>
        \A n \in 1..Len(tradeLog) :
            LET t == tradeLog[n]
                j == Min(t.entry + 24, Len(closes) - 1)
            IN  HitBars(t.entry) = {} =>
                    /\ ~t.exited
                    /\ t.exit = j
                    /\ t.exit_ret = RetAt(t.entry, j)
                    /\ t.cursor = j + 1

\* a time-based exit after the full 24 bars with a return that is not zero,
\* and one cut short by the end of the series
C6_Witness ==
    /\ InSim
    /\ \E n \in 1..Len(tradeLog) :
          /\ ~tradeLog[n].exited
          /\ tradeLog[n].exit = tradeLog[n].entry + 24
          /\ tradeLog[n].exit_ret # 0
    /\ \E n \in 1..Len(tradeLog) :
          /\ ~tradeLog[n].exited
          /\ tradeLog[n].exit = Len(closes) - 1
          /\ tradeLog[n].exit < tradeLog[n].entry + 24

\* the return of the bar after index k, as line 283 computes it
NextRet(k) == Div(At(closes, k + 1), At(closes, k)) - Scale

\* C7: a backtest step multiplies strategy equity by (1 + next_ret) exactly
\* when up_probability >= entry_threshold (a tie enters) and leaves it
\* unchanged otherwise; buy-and-hold equity is multiplied at every step. So
\* strategy equity equals buy-and-hold equity while every step entered, and
\* equals 1 while none did.
C7_EquityCompounding ==
    /\ [][(op = "backtest" /\ pc = "loop" /\ pc' = "loop") =>
            /\ buy_hold' = Mul(buy_hold, Scale + NextRet(i))
            /\ equity' = IF p_up' >= entry_threshold(risk)
                         THEN Mul(equity, Scale + NextRet(i))
                         ELSE equity]_vars
    /\ [](InBacktest =>
            /\ Entries = total => equity = buy_hold
            /\ Entries = 0 => equity = Scale)

\* a step that entered on a tie, in a run that also skipped a bar that moved
C7_Witness ==
    /\ op = "backtest" /\ pc = "loop"
    /\ lastStep.kind = "bar"
    /\ p_up = entry_threshold(risk)
    /\ Entries < total
    /\ equity # buy_hold
    /\ equity # Scale

Insufficient == market.status # "ok" \/ market.bars < lookback

\* C8: no partial result: with fewer bars than the lookback, or a failing
\* price source, the call fails before the loop is entered and produces no
\* result record; otherwise the loop runs to its end and the result is fully
\* populated.
C8_NoPartialResult ==
    op \in {"backtest", "portfolio_simulate"} =>
    /\ pc \in {"start", "loop"} => result = NoResult
    /\ Insufficient => /\ pc \in {"start", "failed"}
                       /\ closes = <<>> /\ Locals = NoLocals
    /\ ~Insufficient => pc # "failed"
    /\ pc = "failed" => /\ result.status = "HTTPException"
                        /\ result.code = 502
    /\ (pc = "done" /\ op = "backtest") =>
          /\ BacktestLoopDone(closes, Locals)
          /\ result = BacktestResponse(to_pair(symbol), times, risk, Locals)
          /\ result.status = "ok"
          /\ result.bars_tested = total /\ total > 0
          /\ result.equity_curve = curve
          /\ result.strategy_return = equity - Scale
          /\ result.max_drawdown = max_dd
    /\ (pc = "done" /\ op = "portfolio_simulate") =>
          /\ SimLoopDone(closes, Locals)
          /\ result.status = "ok"
          /\ result.trades = trades /\ trades = Len(tradeLog)
          /\ result.final_equity = equity
          /\ result.max_drawdown = max_dd

\* a call failed for want of bars, with nothing computed
C8_Witness ==
    /\ op \in {"backtest", "portfolio_simulate"}
    /\ pc = "failed"
    /\ market.status = "ok"
    /\ market.bars = lookback - 1
    /\ result.detail = "Not enough market data for requested lookback"

-----------------------------------------------------------------------------
(* Properties of the endpoints around the handlers.                        *)

\* the exchange answers for s with fewer bars than the endpoint needs: 60
\* for a live signal, the requested lookback for a backtest
ShortOf(s) ==
    /\ MarketOf(s).status = "ok"
    /\ MarketOf(s).bars < (IF endpoint = "backtest_batch" THEN lookback ELSE 60)

\* the symbols a finished batch call was asked to evaluate
Evaluated == {symbols[n] : n \in 1..Len(symbols)} \ {Blank}

\* an element of a response that reports an error for the pair
ReportsError(e, pair) ==
    /\ "status" \in DOMAIN e
    /\ e.status = "HTTPException"
    /\ e.symbol = pair

\* C9 as stated: every entry point, trend_batch, backtest_batch and
\* alerts_check included, reports the insufficient data of each symbol it
\* was asked to evaluate as a condition tied to that symbol.
C9_Original ==
    /\ (endpoint = "trend" /\ pc # "start" /\ ShortOf(symbol)) =>
          result = HTTPException(502, "Not enough market data")
    /\ bpc = "answered" =>
          \A s \in Evaluated :
              ShortOf(s) => \E m \in 1..Len(out) : ReportsError(out[m], to_pair(s))

\* C9, amended: the single-symbol handlers trend and backtest report
\* insufficient data as HTTPException(502); trend_batch, backtest_batch and
\* alerts_check catch that exception and leave the symbol out of their
\* output, which holds successful evaluations only and no error.
C9_ReportedBySingleHandlersOnly ==
    /\ (endpoint = "trend" /\ pc # "start" /\ ShortOf(symbol)) =>
          /\ pc = "failed"
          /\ result = HTTPException(502, "Not enough market data")
    /\ (endpoint = "backtest_batch" /\ bpc = "call" /\ pc # "start"
          /\ ShortOf(symbol)) =>
          /\ pc = "failed"
          /\ result = HTTPException(502,
                          "Not enough market data for requested lookback")
    /\ bpc = "answered" =>
          /\ \A s \in Evaluated :
                ShortOf(s) =>
                    /\ InSeq(to_pair(s), raised)
                    /\ \A m \in 1..Len(out) : out[m].symbol # to_pair(s)
          /\ \A m \in 1..Len(out) :
                /\ ~InSeq(out[m].symbol, raised)
                /\ "status" \in DOMAIN out[m] => out[m].status = "ok"

\* a batch answered with the result of one symbol and nothing for another
\* whose series was too short
C9_Witness ==
    /\ bpc = "answered"
    /\ endpoint = "backtest_batch"
    /\ Len(out) >= 1
    /\ \E s \in Evaluated : ShortOf(s) /\ InSeq(to_pair(s), raised)

\* C10: the signal does not depend on the risk profile: trend answers with
\* the same up_probability, momentum_score and volatility_regime under every
\* profile, and the up-probability of a backtest or simulation step is the
\* signal of its history under every profile.
C10_SignalIgnoresProfile ==
    /\ (endpoint = "direct" /\ op = "trend" /\ pc = "done") =>
          \A r \in RiskProfile :
              LET o == trend(market, symbol, r)
              IN  /\ o.status = "ok"
                  /\ o.risk_profile = r
                  /\ o.up_probability = result.up_probability
                  /\ o.momentum_score = result.momentum_score
                  /\ o.volatility_regime = result.volatility_regime
    /\ (endpoint = "direct" /\ pc \in {"loop", "done"} /\ lastStep.kind # "none") =>
          \A r \in RiskProfile :
              TrendSignal(Hist(closes, lastStep.i), r).up_probability = p_up

\* a live signal between the thresholds of two profiles: the profiles
\* decide differently on the one probability
C10_Witness ==
    /\ endpoint = "direct" /\ op = "trend" /\ pc = "done"
    /\ risk = "conservative"
    /\ result.up_probability >= entry_threshold("aggressive")
    /\ result.up_probability < entry_threshold("conservative")
    /\ trend(market, symbol, "aggressive").explanation # result.explanation

-----------------------------------------------------------------------------
(* Properties of the outlook label.                                        *)

\* the label the specification gives to a probability
OutlookOf(p) ==
    IF p >= Pct(56) THEN "bullish"
    ELSE IF p <= Pct(44) THEN "bearish"
    ELSE "neutral"

\* C11: the outlook label is one function of the up-probability: bullish
\* from 0.56 up, bearish up to 0.44, neutral between; explain and the
\* alert-flip detector give every probability that label, and so the same
\* one, the boundary values 0.44 and 0.56 included.
C11_OutlookAgrees ==
    /\ outlooks.explain # "none" => outlooks.explain = OutlookOf(outlooks.p)
    /\ outlooks.alert # "none" => outlooks.alert = OutlookOf(outlooks.p)
    /\ (outlooks.explain # "none" /\ outlooks.alert # "none") =>
          outlooks.explain = outlooks.alert
    /\ (outlooks.p = Pct(44) /\ outlooks.explain # "none") =>
          outlooks.explain = "bearish"
    /\ (outlooks.p = Pct(56) /\ outlooks.alert # "none") =>
          outlooks.alert = "bullish"

\* the probability 0.44 labelled by both paths
C11_Witness ==
    /\ outlooks.p = Pct(44)
    /\ outlooks.explain = "bearish"
    /\ outlooks.alert = "bearish"

-----------------------------------------------------------------------------
(* Properties of the alert-flip detector.                                  *)

\* the symbols a poll evaluates: the first max_symbols of the watchlist
Polled == {load_watchlist(watchlist_file)[n] :
              n \in 1..Min(max_symbols, Len(load_watchlist(watchlist_file)))}

\* the live signal of s, and whether its evaluation succeeds
Live(s) == trend(MarketOf(s), s, risk)
Succeeds(s) == Live(s).status = "ok"
LabelNow(s) == outlook_from_probability(Live(s).up_probability)

\* the flips a response reports for s
FlipsOf(flips, s) == {n \in 1..Len(flips) : flips[n].symbol = s}

Persisted(file) == IF file.exists THEN file.content ELSE EmptyDict

\* C12: alerts_check diffs against the state the previous poll persisted:
\* for every symbol a poll evaluates successfully it reports a flip exactly
\* when a label of the symbol was persisted and differs from the label
\* computed now, from the persisted to the current label; afterwards the
\* persisted label is the current one. A symbol with no persisted label
\* produces no flip, so the first poll reports none.
C12_FlipsDiffPersisted ==
    /\ [][(endpoint = "alerts_check" /\ bpc = "idle" /\ bpc' = "answered") =>
            \A s \in Polled :
                Succeeds(s) =>
                    LET old == Persisted(alerts_file)
                        flips == FlipsOf(out', s)
                    IN  /\ (flips # {}) = (s \in DOMAIN old /\ old[s] # LabelNow(s))
                        /\ Cardinality(flips) <= 1
                        /\ \A n \in flips :
                              /\ out'[n].from_outlook = old[s]
                              /\ out'[n].to_outlook = LabelNow(s)
                        /\ s \notin DOMAIN old => flips = {}
                        /\ s \in DOMAIN Persisted(alerts_file')
                        /\ Persisted(alerts_file')[s] = LabelNow(s)]_vars
    /\ []((endpoint = "alerts_check" /\ pollLog.polls <= 1) => out = <<>>)

\* a poll that reports the one flip of two symbols it evaluated: the other
\* kept its persisted label
C12_Witness ==
    /\ endpoint = "alerts_check" /\ bpc = "answered"
    /\ Len(out) = 1
    /\ out[1].from_outlook = "bullish" /\ out[1].to_outlook = "bearish"
    /\ \E s \in Polled :
          /\ Succeeds(s)
          /\ s \in DOMAIN pollLog.prev
          /\ pollLog.prev[s] = LabelNow(s)
          /\ LabelNow(s) # "neutral"

\* C17: each poll overwrites the persisted alert state with the labels of
\* exactly the symbols it evaluated successfully: a symbol whose evaluation
\* failed, or that fell outside the first max_symbols watchlist entries, has
\* no persisted label afterwards, so at its next successful poll no flip is
\* reported for it, whatever label it had before.
C17_StateOverwritten ==
    (endpoint = "alerts_check" /\ bpc = "answered") =>
        /\ alerts_file.exists
        /\ DOMAIN alerts_file.content = {s \in Polled : Succeeds(s)}
        /\ \A s \in DOMAIN alerts_file.content :
              alerts_file.content[s] = LabelNow(s)
        /\ pollLog.failed = {s \in Polled : ~Succeeds(s)}
        /\ pollLog.cut = SetOf(load_watchlist(watchlist_file)) \ Polled
        /\ \A s \in pollLog.failed \cup pollLog.cut :
              s \notin DOMAIN alerts_file.content
        /\ \A s \in pollLog.failed_before \cup pollLog.cut_before :
              /\ s \notin DOMAIN pollLog.prev
              /\ FlipsOf(out, s) = {}

\* a poll that reports nothing although two symbols changed label since
\* they were last evaluated: in the poll between, one failed and the other
\* was cut off by max_symbols
C17_Witness ==
    /\ endpoint = "alerts_check" /\ bpc = "answered"
    /\ out = <<>>
    /\ \E s \in pollLog.failed_before :
          /\ s \in Polled /\ Succeeds(s)
          /\ s \in DOMAIN pollLog.known
          /\ pollLog.known[s] # LabelNow(s)
    /\ \E s \in pollLog.cut_before :
          /\ s \in Polled /\ Succeeds(s)
          /\ s \in DOMAIN pollLog.known
          /\ pollLog.known[s] # LabelNow(s)

-----------------------------------------------------------------------------
(* Properties of the trade simulator's counters, frame and termination.    *)

\* the trades logged so far that made money
Winners == {n \in 1..Len(tradeLog) : tradeLog[n].pnl > 0}

\* C13: a win is counted for a trade exactly when its pnl > 0, so
\* 0 <= wins <= trades at every step and win_rate = wins / trades lies in
\* [0, 1]; when no cursor position reaches the entry threshold the run still
\* completes, with trades = 0, win_rate = 0, final_equity = initial_capital,
\* pnl_pct = 0 and max_drawdown = 0.
C13_WinsCounted ==
    /\ InSim =>
          /\ trades = Len(tradeLog)
          /\ wins = Cardinality(Winners)
          /\ 0 <= wins /\ wins <= trades
    /\ (InSim /\ pc = "done") =>
          /\ result.win_rate = (IF trades = 0 THEN 0 ELSE Div(wins, trades))
          /\ 0 <= result.win_rate /\ result.win_rate <= Scale
          /\ Entries = 0 =>
                /\ result.status = "ok"
                /\ result.trades = 0
                /\ result.win_rate = 0
                /\ result.final_equity = initial_capital
                /\ result.pnl_pct = 0
                /\ result.max_drawdown = 0
    /\ (op = "portfolio_simulate" /\ pc = "failed") => Insufficient

\* a finished run with a winning trade, and a trade that was not a win
C13_Witness ==
    /\ InSim /\ pc = "done"
    /\ 0 < wins /\ wins < trades
    /\ 0 < result.win_rate /\ result.win_rate < Scale

\* a finished run over a series that moved, in which no bar met the
\* threshold
C13_NoTrades ==
    /\ InSim /\ pc = "done"
    /\ market.pattern # Flat
    /\ Entries = 0
    /\ result.trades = 0

\* C14: a skipped bar changes nothing but the cursor: when the
\* up-probability at cursor i is below the entry threshold the step advances
\* i by exactly 1 and leaves equity, peak, max_dd, trades and wins as they
\* are; these five change only in a step that opens and closes a trade, and
\* trades grows by exactly 1 in such a step.
C14_SkipFrame ==
    [][(op = "portfolio_simulate" /\ pc = "loop") =>
         /\ (pc' = "loop" /\ SignalAt(closes, i) < entry_threshold(risk)) =>
               /\ i' = i + 1
               /\ UNCHANGED <<equity, peak, max_dd, trades, wins>>
         /\ <<equity, peak, max_dd, trades, wins>>'
               # <<equity, peak, max_dd, trades, wins>> =>
               /\ SignalAt(closes, i) >= entry_threshold(risk)
               /\ Len(tradeLog') = Len(tradeLog) + 1
         /\ Len(tradeLog') = Len(tradeLog) + 1 => trades' = trades + 1
         /\ Len(tradeLog') = Len(tradeLog) => trades' = trades]_vars

\* a bar skipped after a trade that moved the equity
C14_Witness ==
    /\ InSim /\ pc = "loop"
    /\ lastStep.kind = "skip"
    /\ trades >= 1
    /\ equity # initial_capital
    /\ max_dd < 0

\* C15: the simulation loop terminates on every series and never indexes
\* outside it: the cursor strictly increases at every iteration, a trade is
\* entered only at an index i with 60 <= i <= L - 3, the forward scan of a
\* trade is never empty, every exit index j satisfies i < j <= L - 1, and
\* every history handed to the features has at least 61 closes.
C15_Terminates ==
    /\ [][(op = "portfolio_simulate" /\ pc = "loop" /\ pc' = "loop") =>
            i' > i]_vars
    /\ [](InSim =>
            /\ 60 <= i /\ i <= Len(closes)
            /\ \A n \in 1..Len(tradeLog) :
                  /\ 60 <= tradeLog[n].entry
                  /\ tradeLog[n].entry <= Len(closes) - 3
                  /\ tradeLog[n].scanned >= 1
                  /\ tradeLog[n].entry < tradeLog[n].exit
                  /\ tradeLog[n].exit <= Len(closes) - 1
            /\ lastStep.kind # "none" =>
                  /\ Len(Hist(closes, lastStep.i)) = lastStep.i + 1
                  /\ Len(Hist(closes, lastStep.i)) >= 61
                  /\ Len(Hist(closes, lastStep.i)) >= LongLag
                  /\ lastStep.i <= Len(closes) - 3)
    /\ <>(pc \in {"done", "failed"})

\* a finished run whose last trade was entered at L - 3, the last index the
\* loop visits, and left at the last bar
C15_Witness ==
    /\ InSim /\ pc = "done"
    /\ Len(tradeLog) >= 1
    /\ tradeLog[Len(tradeLog)].entry = Len(closes) - 3
    /\ tradeLog[Len(tradeLog)].exit <= Len(closes) - 1
    /\ i >= Len(closes) - 2

\* the pnl of a trade with return x on the equity e it was opened with
PnlOf(e, x) == Mul(Mul(e, risk_params(risk).pos_size), x)

\* C16: the realized exit_ret of every trade, every time-based exit
\* included, lies in [-stop_loss_pct, +take_profit_pct], that of a
\* time-based exit strictly inside, since its exit bar was scanned without a
\* hit; so the pnl of a trade lies between that of a stopped trade and that
\* of a trade that reached its target, and equity stays strictly positive.
C16_ExitRetBounded ==
    /\ [](InSim =>
            /\ equity > 0
            /\ \A n \in 1..Len(tradeLog) :
                  LET t == tradeLog[n]
                      rp == risk_params(risk)
                  IN  /\ -rp.stop_loss <= t.exit_ret
                      /\ t.exit_ret <= rp.take_profit
                      /\ ~t.exited =>
                            /\ -rp.stop_loss < t.exit_ret
                            /\ t.exit_ret < rp.take_profit
                            /\ t.exit \in ScanBars(t.entry)
                            /\ t.scanned = t.exit - t.entry)
    /\ [][(op = "portfolio_simulate" /\ pc = "loop"
             /\ Len(tradeLog') = Len(tradeLog) + 1) =>
            /\ equity' >= equity + PnlOf(equity, -risk_params(risk).stop_loss)
            /\ equity' <= equity + PnlOf(equity, risk_params(risk).take_profit)
            /\ equity' = equity + PnlOf(equity, tradeLog'[Len(tradeLog')].exit_ret)
            /\ equity' > 0]_vars

\* a time-based exit with a loss and one with a gain, both short of the
\* stop and of the target
C16_Witness ==
    /\ InSim
    /\ \E n \in 1..Len(tradeLog) :
          /\ ~tradeLog[n].exited
          /\ tradeLog[n].exit_ret < 0
          /\ tradeLog[n].pnl < 0
    /\ \E n \in 1..Len(tradeLog) :
          /\ ~tradeLog[n].exited
          /\ tradeLog[n].exit_ret > 0
          /\ tradeLog[n].pnl > 0

-----------------------------------------------------------------------------
(* Properties of the watchlist.                                            *)

Normalised(pair) == pair.upper /\ pair.usdt

NoDuplicates(seq) ==
    \A a, b \in 1..Len(seq) : seq[a] = seq[b] => a = b

\* the requests answered so far
Answered == {n \in 1..Len(requests) : requests[n].pc = "done"}

\* the watchlist a request found, as _load_watchlist reads it
Found(r) == load_watchlist(r.before)

\* C18: after any sequence of add, remove and import requests handled one
\* after the other, the persisted watchlist holds no duplicate and only
\* normalised pairs; adding a symbol that is present changes nothing, adding
\* a new one appends its pair at the end of the list in its order, and after
\* remove(s) the pair of s is absent and the other pairs keep their order.
C18_WatchlistNormalised ==
    /\ watchlist_file.exists =>
          /\ NoDuplicates(watchlist_file.content)
          /\ \A k \in 1..Len(watchlist_file.content) :
                Normalised(watchlist_file.content[k])
    /\ \A n \in Answered :
          LET r == requests[n]
              pair == to_pair(r.symbol)
          IN  /\ (r.op = "add" /\ InSeq(pair, Found(r))) =>
                    /\ r.after = r.before
                    /\ ~r.saved
                    /\ r.response = Found(r)
              /\ (r.op = "add" /\ ~InSeq(pair, Found(r))) =>
                    /\ r.after = File(Append(Found(r), pair))
                    /\ r.response = Append(Found(r), pair)
              /\ r.op = "remove" =>
                    /\ r.after.exists
                    /\ ~InSeq(pair, r.after.content)
                    /\ r.after.content = Without(Found(r), pair)
              /\ n = Len(requests) => watchlist_file = r.after

\* a pair removed, added again and added once more: the last request found
\* it at the end of the list and changed nothing
C18_Witness ==
    /\ Len(requests) = 3 /\ AllDone
    /\ requests[1].op = "remove" /\ requests[1].symbol = Symbol("BTC", FALSE, FALSE)
    /\ requests[2].op = "add" /\ requests[2].symbol = Symbol("BTC", FALSE, FALSE)
    /\ requests[3].op = "add" /\ requests[3].symbol = Symbol("BTC", FALSE, FALSE)
    /\ requests[2].saved /\ ~requests[3].saved
    /\ watchlist_file = File(<<Pair("ETH"), Pair("SOL"), Pair("BTC")>>)

\* C19: an import replaces the persisted watchlist with exactly the
\* de-duplicated pairs of the universe it loaded and keeps no earlier entry;
\* when the fetch fails and there is no cache with entries, the universe
\* loaded is empty and the persisted watchlist becomes empty, and the failed
\* fetch leaves the cache file as it was.
C19_ImportReplaces ==
    \A n \in Answered :
        LET r == requests[n]
            cached == load_json(r.universe_before, <<>>)
        IN  r.op = "import" =>
                /\ r.after = File(CleanPairs(PairsOf(r.coins), <<>>))
                /\ r.response = r.after.content
                /\ n = Len(requests) => watchlist_file = r.after
                /\ \A k \in 1..Len(r.after.content) :
                      \E c \in 1..Len(r.coins) :
                          r.after.content[k] = to_pair(r.coins[c].symbol)
                /\ (cached = <<>> \/ r.refresh) =>
                      /\ r.answer = "error" =>
                            /\ r.universe_after = r.universe_before
                            /\ r.coins = cached
                      /\ (r.answer = "error" /\ cached = <<>>) =>
                            /\ r.coins = <<>>
                            /\ r.after = File(<<>>)
                            /\ r.response = <<>>

\* an import that emptied a watchlist that had entries: the fetch failed
\* and there was no cache
C19_Witness ==
    /\ Len(requests) >= 2 /\ AllDone
    /\ LET r == requests[Len(requests)]
       IN  /\ r.op = "import"
           /\ r.answer = "error"
           /\ r.before.exists /\ r.before.content # <<>>
           /\ ~r.universe_before.exists
           /\ ~universe_file.exists
           /\ watchlist_file = File(<<>>)

\* the list a request writes, from the list it loaded
Written(r) ==
    IF r.op = "add" THEN Append(Found(r), to_pair(r.symbol))
    ELSE Without(Found(r), to_pair(r.symbol))

\* C20: the watchlist update is a read-modify-write of the whole file with
\* no lock: a save writes the list computed from the list the request
\* loaded, whatever was saved in between, so that the update of a request
\* that saved in between is lost. With two concurrent add requests for
\* different symbols, and with an add and a remove of another symbol, a
\* state is reached in which the persisted watchlist lacks an added pair or
\* holds a removed one.
C20_ReadModifyWrite ==
    /\ \A n \in Answered :
          requests[n].saved => requests[n].after = File(Written(requests[n]))
    /\ \A n \in 1..Len(requests) :
          (requests[n].pc = "loaded" /\ requests[n].op = "add") =>
              requests[n].current = Found(requests[n])
    /\ (AllDone /\ \A n \in Answered : ~requests[n].stale) =>
          \A n \in Answered :
              (requests[n].op = "add"
                 /\ \A m \in Answered :
                       requests[m].op = "remove" =>
                           to_pair(requests[m].symbol) # to_pair(requests[n].symbol))
              => InSeq(to_pair(requests[n].symbol), load_watchlist(watchlist_file))

\* two add requests for ADA and XRP, both answered with their pair saved,
\* and the persisted watchlist holds only one of the two
C20_Witness ==
    /\ Len(requests) = 2 /\ AllDone
    /\ requests[1].op = "add" /\ requests[2].op = "add"
    /\ to_pair(requests[1].symbol) # to_pair(requests[2].symbol)
    /\ requests[1].saved /\ requests[2].saved
    /\ requests[1].stale \/ requests[2].stale
    /\ InSeq(to_pair(requests[1].symbol), requests[1].response)
    /\ InSeq(to_pair(requests[2].symbol), requests[2].response)
    /\ \/ ~InSeq(to_pair(requests[1].symbol), watchlist_file.content)
       \/ ~InSeq(to_pair(requests[2].symbol), watchlist_file.content)

\* an add of ADA and a remove of BTC, both answered: the watchlist lacks
\* the pair added
C20_AddLostToRemove ==
    /\ Len(requests) = 2 /\ AllDone
    /\ \E n, m \in Answered :
          /\ requests[n].op = "add" /\ requests[m].op = "remove"
          /\ to_pair(requests[n].symbol) = Pair("ADA")
          /\ to_pair(requests[m].symbol) = Pair("BTC")
          /\ requests[n].saved
          /\ ~InSeq(Pair("ADA"), watchlist_file.content)

\* the same two requests: the watchlist still holds the pair removed
C20_RemoveLostToAdd ==
    /\ Len(requests) = 2 /\ AllDone
    /\ \E n, m \in Answered :
          /\ requests[n].op = "add" /\ requests[m].op = "remove"
          /\ to_pair(requests[n].symbol) = Pair("ADA")
          /\ to_pair(requests[m].symbol) = Pair("BTC")
          /\ requests[m].saved
          /\ InSeq(Pair("BTC"), watchlist_file.content)

====
